---- MODULE Spec2Model ----
(***************************************************************************)
(* Model of the email response system: the dependency scheduler           *)
(* (src/src/app/scheduler.py), the worker pool of EmailProcessor           *)
(* (src/src/app/responder.py), the delivery sink (src/src/app/sink.py)     *)
(* and the run driver _process_emails (src/src/app/main.py).               *)
(*                                                                         *)
(* Email ids are modelled as the integers 1..MaxItems; their order stands  *)
(* for the string order Python uses when it compares (deadline_ns, id)     *)
(* tuples.  A batch is a list of emails with distinct ids 1..n; a declared *)
(* dependency may name any id of 1..MaxItems, so an email may depend on an *)
(* id that is not in the batch, on itself, or on a cycle.                  *)
(***************************************************************************)
EXTENDS Integers, Sequences, FiniteSets, Bags, TLC

\* ------------------------------------------------------------------ bounds
MaxItems == 3
MaxDeadline == 2
MaxCount == 2
RunItems == 2
MaxWorkers == 2
MaxRetries == 2
MaxSends == 2
MaxTicks == 6
MaxFetchSec == 1
MaxTime == 4
MaxLag == 1

\* settings.max_retries (config.py)
DefaultMaxRetries == 3

\* The factor of from_external: nanoseconds in a second.
NsPerSec == 1000000000

\* EmailIn.deadline is a float.  The offsets considered are whole numbers of
\* ticks of 2^-10 s, which a float holds exactly and whose product with
\* 1_000_000_000 a float holds exactly too: a tick is 976562.5 ns, that is
\* 1953125 half-nanoseconds.
TicksPerSec == 1024
HalfNsPerTick == 1953125

\* The offset of the unit test, 1.5 s, in ticks.
ExampleTicks == 1536

Ids == 1..MaxItems
Deadlines == 1..MaxDeadline
NoEmail == 0
\* The status classes of a delivery attempt: 2xx, 4xx, 5xx.
StatusClasses == {"2xx", "4xx", "5xx"}

\* An EmailInternal, reduced to the fields the scheduler reads.
EmailRec == [deadline_ns : Deadlines, dependencies : SUBSET Ids]

\* The batches considered list the emails by non-increasing deadline.  Every
\* batch with distinct ids is one of these after its ids are renamed in the
\* order of (deadline descending, id ascending): the renaming keeps the order
\* of the ids of equal deadline, the one order of ids the scheduler reads.
ByDeadline(es) ==
    \A i, j \in DOMAIN es : i < j => es[i].deadline_ns >= es[j].deadline_ns

\* The scheduler and the workers only compare deadlines with one another:
\* the deadlines of a batch are taken to be 1..k for the k distinct deadlines
\* of the batch, which keeps every comparison between them.
Ranked(es) ==
    \A i \in DOMAIN es :
        \A c \in 1..es[i].deadline_ns : \E j \in DOMAIN es : es[j].deadline_ns = c

\* The lists of n deadlines drawn from ds that are listed as ByDeadline
\* says and, if asked, ranked as Ranked says; the batch of the emails with
\* deadlines dl and dependencies dp.
Batch(dl, dp) == [i \in DOMAIN dl |-> [deadline_ns |-> dl[i], dependencies |-> dp[i]]]

DeadlineLists(n, ds, ranked) ==
    {dl \in [1..n -> ds] :
        LET es == Batch(dl, [i \in 1..n |-> {}])
        IN  ByDeadline(es) /\ (ranked => Ranked(es))}

\* The emails of a run: up to RunItems emails whose dependencies name ids of
\* 1..RunItems (an id above the batch's length names no email of the batch).
RunEmailRec == [deadline_ns : Deadlines, dependencies : SUBSET (1..RunItems)]

VARIABLES
    emails,          \* the batch given to DependencyScheduler.__init__
    sched,           \* "new" | "built" | "failed" (ValueError raised)
    deps_map,        \* email_id -> set of unmet dependency ids
    dependents_map,  \* parent id -> set of child ids
    queue,           \* the heap, as the ascending sequence of (deadline_ns, id)
    popCount,        \* id -> number of times the id was returned by a pop
    doneCount,       \* id -> number of mark_done calls made for the id
    status,          \* _RUN_STATUS[run_id]: "running" | "completed" | "failed"
    nworkers,        \* the number of tasks run() creates
    pool,            \* the tasks of run(): a bag of worker states [pc, email]
    locked,          \* _sched_lock is held
    max_retries,     \* ResponseSink._max_retries
    success_count,   \* ResponseSink.success_count
    failure_count,   \* ResponseSink.failure_count
    retry_count,     \* ResponseSink.retry_count
    sendCount,       \* id -> number of send calls made for the id
    ret,             \* the ids the last direct get_ready_batch / pop_next returned
    last,            \* the last direct call of the scheduler: <<name, argument>>
    behaviour,       \* the answers the collaborator had for the last send call
    outcome,         \* what the last send call did (see send)
    parsed,          \* the raw email from_external is given and what it returns
    lead             \* one popped email on its way through the worker, with the clock

schedVars == <<emails, sched, deps_map, dependents_map, queue>>
histVars == <<popCount, doneCount>>
workVars == <<status, nworkers, pool, locked>>
sinkVars == <<max_retries, success_count, failure_count, retry_count, sendCount>>
obsVars == <<ret, last, behaviour, outcome, parsed, lead>>
vars == <<schedVars, histVars, workVars, sinkVars, obsVars>>

\* ------------------------------------------------------ the heap (heapq)
\* A faulty KeyLess: the heap is keyed by the deadline alone.
KeyLess_deadline(a, b) == a[1] < b[1]

\* Python's tuple comparison on (deadline_ns, email_id).
KeyLess(a, b) == a[1] < b[1] \/ (a[1] = b[1] /\ a[2] < b[2])

RECURSIVE SortedInsert(_, _)
SortedInsert(q, k) ==
    IF q = <<>> THEN <<k>>
    ELSE IF KeyLess(k, Head(q)) THEN <<k>> \o q
    ELSE <<Head(q)>> \o SortedInsert(Tail(q), k)

\* A faulty heappush: the queue is first in, first out.
heappush_fifo(q, k) == Append(q, k)

heappush(q, k) == SortedInsert(q, k)

\* A faulty heappop: the smallest entry is read but stays in the heap.
heappop_keeps(q) == <<Head(q), q>>

heappop(q) == <<Head(q), Tail(q)>>

\* --------------------------------------------------- DependencyScheduler
\* graphlib.TopologicalSorter(deps_map).prepare(): the nodes are the keys and
\* every id named as a dependency; it raises CycleError when some nodes can
\* never be ordered.
GraphNodes(dm) == DOMAIN dm \cup UNION {dm[i] : i \in DOMAIN dm}

Preds(dm, n) == IF n \in DOMAIN dm THEN dm[n] ELSE {}

\* A faulty Orderable: an email's dependency on itself is not looked at.
RECURSIVE Orderable_noself(_, _)
Orderable_noself(dm, placed) ==
    LET free == {n \in GraphNodes(dm) \ placed : Preds(dm, n) \ {n} \subseteq placed}
    IN  IF free = {} THEN placed ELSE Orderable_noself(dm, placed \cup free)

RECURSIVE Orderable(_, _)
Orderable(dm, placed) ==
    LET free == {n \in GraphNodes(dm) \ placed : Preds(dm, n) \subseteq placed}
    IN  IF free = {} THEN placed ELSE Orderable(dm, placed \cup free)

\* A faulty HasCycle: only an email that names itself is refused.
HasCycle_selfonly(dm) == \E i \in DOMAIN dm : i \in dm[i]

HasCycle(dm) == Orderable(dm, {}) # GraphNodes(dm)

InitDepsMap(es) == [i \in DOMAIN es |-> es[i].dependencies]

InitDependents(dm) ==
    [p \in UNION {dm[i] : i \in DOMAIN dm} |-> {i \in DOMAIN dm : p \in dm[i]}]

\* A faulty InitQueue: every email is pushed, whatever its dependencies.
RECURSIVE InitQueue_all(_, _, _)
InitQueue_all(es, dm, i) ==
    IF i = 0 THEN <<>>
    ELSE heappush(InitQueue_all(es, dm, i - 1), <<es[i].deadline_ns, i>>)

\* The loop that fills the ready queue, over the first i emails of the list.
RECURSIVE InitQueue(_, _, _)
InitQueue(es, dm, i) ==
    IF i = 0 THEN <<>>
    ELSE LET q == InitQueue(es, dm, i - 1)
         IN  IF dm[i] = {} THEN heappush(q, <<es[i].deadline_ns, i>>) ELSE q

\* get_ready_batch(count): <<ids popped, remaining queue>>.
RECURSIVE get_ready_batch(_, _, _)
get_ready_batch(q, count, batch) ==
    IF q # <<>> /\ Len(batch) < count
    THEN get_ready_batch(heappop(q)[2], count, Append(batch, heappop(q)[1][2]))
    ELSE <<batch, q>>

\* A faulty MarkChildren: the whole unmet set of a child is cleared.
RECURSIVE MarkChildren_clears(_, _, _, _, _)
MarkChildren_clears(es, dm, q, id, children) ==
    IF children = {} THEN <<dm, q>>
    ELSE LET child == CHOOSE c \in children : TRUE
             dm2 == [dm EXCEPT ![child] = {}]
             q2 == heappush(q, <<es[child].deadline_ns, child>>)
         IN  MarkChildren_clears(es, dm2, q2, id, children \ {child})

\* mark_done(email_id): <<deps_map, queue>> after the loop over the children.
RECURSIVE MarkChildren(_, _, _, _, _)
MarkChildren(es, dm, q, id, children) ==
    IF children = {} THEN <<dm, q>>
    ELSE LET child == CHOOSE c \in children : TRUE
             deps == dm[child] \ {id}
             dm2 == [dm EXCEPT ![child] = deps]
             q2 == IF deps = {} THEN heappush(q, <<es[child].deadline_ns, child>>)
                   ELSE q
         IN  MarkChildren(es, dm2, q2, id, children \ {child})

\* A faulty mark_done: every other email is treated as a dependent of the
\* one marked.
mark_done_all(es, dm, dpm, q, id) ==
    MarkChildren(es, dm, q, id, DOMAIN dm \ {id})

mark_done(es, dm, dpm, q, id) ==
    MarkChildren(es, dm, q, id, IF id \in DOMAIN dpm THEN dpm[id] ELSE {})

has_work(q) == q # <<>>

\* ------------------------------------------------------ ResponseSink.send
\* What one send call did: the increments of the three counters, the number
\* of post_response calls and of back-off sleeps, and how it ended
\* ("success" | "drop" | "give_up" | "raise": an exception left send |
\* "none": the loop made no attempt).
NoOutcome == [success |-> 0, failure |-> 0, retry |-> 0, attempts |-> 0,
              sleeps |-> 0, end |-> "none"]

\* What post_response can do at one attempt: return (2xx), raise
\* HTTPStatusError with a 4xx or a 5xx status, or raise another exception
\* ("err": a transport error of httpx, a response that is not JSON).
Answers == StatusClasses \cup {"err"}

\* A faulty SendLoop: a success is counted but the loop goes on to the next
\* attempt.
RECURSIVE SendLoop_nostop(_, _, _, _)
SendLoop_nostop(answers, att, maxr, acc) ==
    IF att > maxr THEN acc
    ELSE LET made == [acc EXCEPT !.attempts = @ + 1]
         IN  IF answers[att] = "err" THEN [made EXCEPT !.end = "raise"]
             ELSE IF answers[att] = "2xx"
             THEN SendLoop_nostop(answers, att + 1, maxr,
                                  [made EXCEPT !.success = @ + 1, !.end = "success"])
             ELSE IF answers[att] = "4xx"
             THEN [made EXCEPT !.failure = @ + 1, !.end = "drop"]
             ELSE IF att >= maxr
             THEN [made EXCEPT !.failure = @ + 1, !.end = "give_up"]
             ELSE SendLoop_nostop(answers, att + 1, maxr,
                                  [made EXCEPT !.sleeps = @ + 1, !.retry = @ + 1])

\* A faulty SendLoop: a 4xx answer is retried like a 5xx answer.
RECURSIVE SendLoop_retry4xx(_, _, _, _)
SendLoop_retry4xx(answers, att, maxr, acc) ==
    IF att > maxr THEN acc
    ELSE LET made == [acc EXCEPT !.attempts = @ + 1]
         IN  IF answers[att] = "err" THEN [made EXCEPT !.end = "raise"]
             ELSE IF answers[att] = "2xx"
             THEN [made EXCEPT !.success = @ + 1, !.end = "success"]
             ELSE IF att >= maxr
             THEN [made EXCEPT !.failure = @ + 1, !.end = "give_up"]
             ELSE SendLoop_retry4xx(answers, att + 1, maxr,
                                    [made EXCEPT !.sleeps = @ + 1, !.retry = @ + 1])

\* A faulty SendLoop: the last failed attempt is followed by a back-off
\* sleep and counted as a retry before the call gives up.
RECURSIVE SendLoop_countslast(_, _, _, _)
SendLoop_countslast(answers, att, maxr, acc) ==
    IF att > maxr THEN acc
    ELSE LET made == [acc EXCEPT !.attempts = @ + 1]
         IN  IF answers[att] = "err" THEN [made EXCEPT !.end = "raise"]
             ELSE IF answers[att] = "2xx"
             THEN [made EXCEPT !.success = @ + 1, !.end = "success"]
             ELSE IF answers[att] = "4xx"
             THEN [made EXCEPT !.failure = @ + 1, !.end = "drop"]
             ELSE IF att >= maxr
             THEN [made EXCEPT !.failure = @ + 1, !.sleeps = @ + 1,
                               !.retry = @ + 1, !.end = "give_up"]
             ELSE SendLoop_countslast(answers, att + 1, maxr,
                                      [made EXCEPT !.sleeps = @ + 1, !.retry = @ + 1])

\* The for loop of send from attempt att on; answers[att] is what
\* post_response does at that attempt.  Only HTTPStatusError is caught: any
\* other exception leaves the loop and send.
RECURSIVE SendLoop(_, _, _, _)
SendLoop(answers, att, maxr, acc) ==
    IF att > maxr THEN acc
    ELSE LET made == [acc EXCEPT !.attempts = @ + 1]
         IN  IF answers[att] = "err" THEN [made EXCEPT !.end = "raise"]
             ELSE IF answers[att] = "2xx"
             THEN [made EXCEPT !.success = @ + 1, !.end = "success"]
             ELSE IF answers[att] = "4xx"
             THEN [made EXCEPT !.failure = @ + 1, !.end = "drop"]
             ELSE IF att >= maxr
             THEN [made EXCEPT !.failure = @ + 1, !.end = "give_up"]
             ELSE SendLoop(answers, att + 1, maxr,
                           [made EXCEPT !.sleeps = @ + 1, !.retry = @ + 1])

send(answers, maxr) == SendLoop(answers, 1, maxr, NoOutcome)

\* The answers a collaborator that always answers with a status may have for
\* the attempts of one call.
Behaviours(maxr) == [1..maxr -> StatusClasses]

\* The same, for a collaborator that may also fail without a status.
AnyBehaviours(maxr) == [1..maxr -> Answers]

\* What a send call can do, over the behaviours of the collaborator.
Outcomes(maxr) == {send(answers, maxr) : answers \in Behaviours(maxr)}

\* A faulty SendOp: a call that gives up after the last attempt is not
\* counted as a failure.
SendOp_dropsgiveup(o) ==
    /\ success_count' = success_count + o.success
    /\ failure_count' = failure_count + (IF o.end = "give_up" THEN 0 ELSE o.failure)
    /\ retry_count' = retry_count + o.retry
    /\ UNCHANGED max_retries

\* The counters after one send call that did o.
SendOp(o) ==
    /\ success_count' = success_count + o.success
    /\ failure_count' = failure_count + o.failure
    /\ retry_count' = retry_count + o.retry
    /\ UNCHANGED max_retries

\* ------------------------------------------ EmailInternal.from_external
\* A count of nanoseconds is held as <<seconds, nanoseconds>> with
\* 0 <= nanoseconds < NsPerSec: 2_500_000_000 ns is <<2, 500000000>>.
\* Python's integers have no bound; the pair keeps every number the model
\* computes with small.
Normal(sec, ns) ==
    IF ns >= NsPerSec THEN <<sec + 1, ns - NsPerSec>>
    ELSE IF ns < 0 THEN <<sec - 1, ns + NsPerSec>>
    ELSE <<sec, ns>>

\* A faulty Trunc: the quotient is rounded down.
Trunc_floor(a, b) == a \div b

\* int(x) of Python for x = a / b, b > 0: the fraction is dropped.
Trunc(a, b) == IF a >= 0 THEN a \div b ELSE -((-a) \div b)

\* int(raw.deadline * 1_000_000_000) for a deadline of ticks ticks, as
\* <<whole seconds, nanoseconds>> of the sign of ticks, the two summed being
\* the integer.
OffsetNs(ticks) ==
    LET secs == Trunc(ticks, TicksPerSec)
        rest == ticks - secs * TicksPerSec
    IN  <<secs, Trunc(rest * HalfNsPerTick, 2)>>

\* from_external(raw, fetch_start_ns).deadline_ns
from_external(ticks, fetch) ==
    Normal(fetch[1] + OffsetNs(ticks)[1], fetch[2] + OffsetNs(ticks)[2])

\* ------------------------------------------------- the lead-time rule
\* Times are counted in half seconds: the 0.5 s the worker aims to start
\* ahead of the deadline is one unit.
LeadMargin == 1

\* A faulty ahead_sec: the half second is not subtracted.
ahead_sec_nomargin(deadline_ns, now_ns) == deadline_ns - now_ns

\* ahead_sec = email.deadline_ns / 1e9 - now_ns / 1e9 - 0.5
ahead_sec(deadline_ns, now_ns) == deadline_ns - now_ns - LeadMargin

\* No email is followed through the worker.
NoLead == [pc |-> "none", deadline_ns |-> 0, clock |-> 0, now_ns |-> 0,
           asked |-> 0, start |-> 0]

\* No email has been parsed.
NoParse == [fetch_start_ns |-> <<0, 0>>, deadline |-> 0, deadline_ns |-> <<>>]

\* ------------------------------------------------- scheduler operations
Bump(f, ids) == [i \in DOMAIN f |-> IF i \in ids THEN f[i] + 1 ELSE f[i]]

SeqRange(s) == {s[i] : i \in 1..Len(s)}

NoScheduler ==
    /\ sched = "new"
    /\ deps_map = <<>>
    /\ dependents_map = <<>>
    /\ queue = <<>>
    /\ popCount = [i \in Ids |-> 0]
    /\ doneCount = [i \in Ids |-> 0]

NoRun ==
    /\ status = "running"
    /\ pool = EmptyBag
    /\ locked = FALSE

NoSend ==
    /\ success_count = 0
    /\ failure_count = 0
    /\ retry_count = 0
    /\ sendCount = [i \in Ids |-> 0]
    /\ behaviour = <<>>
    /\ outcome = NoOutcome
    /\ ret = <<>>
    /\ last = <<"none", 0>>
    /\ parsed = NoParse
    /\ lead = NoLead

\* DependencyScheduler.__init__ on an acyclic batch.
ConstructOp ==
    /\ sched = "new"
    /\ ~HasCycle(InitDepsMap(emails))
    /\ sched' = "built"
    /\ deps_map' = InitDepsMap(emails)
    /\ dependents_map' = InitDependents(InitDepsMap(emails))
    /\ queue' = InitQueue(emails, InitDepsMap(emails), Len(emails))
    /\ UNCHANGED <<emails, popCount, doneCount>>

\* DependencyScheduler.__init__ raising ValueError: no object is returned.
ConstructFailsOp ==
    /\ sched = "new"
    /\ HasCycle(InitDepsMap(emails))
    /\ sched' = "failed"
    /\ UNCHANGED <<emails, deps_map, dependents_map, queue, popCount, doneCount>>

\* get_ready_batch(count) on the scheduler; pop_next() is get_ready_batch(1).
PopOp(count) ==
    /\ sched = "built"
    /\ LET r == get_ready_batch(queue, count, <<>>)
       IN  /\ queue' = r[2]
           /\ popCount' = Bump(popCount, SeqRange(r[1]))
    /\ UNCHANGED <<emails, sched, deps_map, dependents_map, doneCount>>

\* The ids that call returns.
Popped(count) == get_ready_batch(queue, count, <<>>)[1]

\* mark_done(id) on the scheduler.
MarkOp(id) ==
    /\ sched = "built"
    /\ LET r == mark_done(emails, deps_map, dependents_map, queue, id)
       IN  /\ deps_map' = r[1]
           /\ queue' = r[2]
    /\ doneCount' = Bump(doneCount, {id})
    /\ UNCHANGED <<emails, sched, dependents_map, popCount>>

\* ---------------------------------- the scheduler driven call by call
SchedInit ==
    /\ \E n \in 0..MaxItems : \E dl \in DeadlineLists(n, Deadlines, FALSE) :
          \E dp \in [1..n -> SUBSET Ids] : emails = Batch(dl, dp)
    /\ NoScheduler
    /\ NoRun
    /\ NoSend
    /\ nworkers = 0
    /\ max_retries = DefaultMaxRetries

Construct ==
    /\ ConstructOp
    /\ last' = <<"init", 0>>
    /\ UNCHANGED <<workVars, sinkVars, ret, behaviour, outcome, parsed, lead>>

ConstructFails ==
    /\ ConstructFailsOp
    /\ last' = <<"init", 0>>
    /\ UNCHANGED <<workVars, sinkVars, ret, behaviour, outcome, parsed, lead>>

PopNext ==
    /\ PopOp(1)
    /\ ret' = Popped(1)
    /\ last' = <<"pop_next", 1>>
    /\ UNCHANGED <<workVars, sinkVars, behaviour, outcome, parsed, lead>>

GetReadyBatch(count) ==
    /\ PopOp(count)
    /\ ret' = Popped(count)
    /\ last' = <<"get_ready_batch", count>>
    /\ UNCHANGED <<workVars, sinkVars, behaviour, outcome, parsed, lead>>

\* mark_done is called once for each id that was popped.
MarkDone(id) ==
    /\ popCount[id] > doneCount[id]
    /\ MarkOp(id)
    /\ last' = <<"mark_done", id>>
    /\ UNCHANGED <<workVars, sinkVars, ret, behaviour, outcome, parsed, lead>>

SchedNext ==
    \/ Construct
    \/ ConstructFails
    \/ PopNext
    \/ \E count \in 0..MaxCount : GetReadyBatch(count)
    \/ \E id \in Ids : MarkDone(id)

SchedSpec == SchedInit /\ [][SchedNext]_vars

\* ------------------------------------------ the sink driven call by call
\* ResponseSink(client, max_retries=arg): a falsy arg selects the setting.
SinkInit ==
    /\ emails = <<>>
    /\ NoScheduler
    /\ NoRun
    /\ NoSend
    /\ nworkers = 0
    /\ \E arg \in 0..MaxRetries :
          max_retries = IF arg = 0 THEN DefaultMaxRetries ELSE arg

\* await sink.send(payload), from the call to its return.
SinkSend(answers) ==
    /\ sendCount[1] < MaxSends
    /\ SendOp(send(answers, max_retries))
    /\ sendCount' = Bump(sendCount, {1})
    /\ behaviour' = answers
    /\ outcome' = send(answers, max_retries)
    /\ UNCHANGED <<schedVars, histVars, workVars, ret, last, parsed, lead>>

SinkNext == \E answers \in AnyBehaviours(max_retries) : SinkSend(answers)

SinkSpec == SinkInit /\ [][SinkNext]_vars

\* ------------------------------------------------ _process_emails / run
\* settings.max_retries is the configured number of attempts.
Init ==
    /\ \E n \in 0..RunItems : \E dl \in DeadlineLists(n, Deadlines, TRUE) :
          \E dp \in [1..n -> SUBSET (1..RunItems)] : emails = Batch(dl, dp)
    /\ NoScheduler
    /\ NoRun
    /\ NoSend
    /\ nworkers \in 1..MaxWorkers
    /\ max_retries = MaxRetries

\* The workers run the same loop and are told apart by nothing but their
\* state: the pool is the bag of the states of the nworkers tasks.  A worker
\* state is its position pc in _process_loop and its local variable email.
\*   "top"    at async with self._sched_lock, before the pop block
\*   "pop"    in the pop block, holding the lock
\*   "idle"   in asyncio.sleep(0.01)
\*   "gen"    in the lead-time sleep or in mock_openai_response
\*   "send"   in self._sink.send
\*   "gap"    in asyncio.sleep(settings.inter_dependency_gap)
\*   "mark"   in the mark_done block, holding the lock
\*   "exited" after break
Worker(p, e) == [pc |-> p, email |-> e]

\* A faulty Copies: one task more than asked for.
Copies_extra(r, n) == [x \in {r} |-> n + 1]

Copies(r, n) == [x \in {r} |-> n]

\* The pool after one worker in state r has moved to state r2.
Move(r, r2) == (pool (-) SetToBag({r})) (+) SetToBag({r2})

At(p) == {r \in BagToSet(pool) : r.pc = p}

\* Step 2 of _process_emails: no valid email, the run fails.
MainNoEmails ==
    /\ status = "running"
    /\ sched = "new"
    /\ emails = <<>>
    /\ status' = "failed"
    /\ UNCHANGED <<schedVars, histVars, nworkers, pool, locked, sinkVars, obsVars>>

\* Steps 3 to 5: the scheduler is built and run() creates the worker tasks.
MainBuild ==
    /\ status = "running"
    /\ emails # <<>>
    /\ ConstructOp
    /\ pool' = Copies(Worker("top", NoEmail), nworkers)
    /\ UNCHANGED <<status, nworkers, locked, sinkVars, obsVars>>

\* Step 3 on ValueError: the run fails.
MainBuildFails ==
    /\ status = "running"
    /\ emails # <<>>
    /\ ConstructFailsOp
    /\ status' = "failed"
    /\ UNCHANGED <<nworkers, pool, locked, sinkVars, obsVars>>

\* A faulty LockPop: the pop block is entered without waiting for the lock.
LockPop_nowait(r) ==
    /\ r.pc \in {"top", "idle"}
    /\ locked' = TRUE
    /\ pool' = Move(r, [r EXCEPT !.pc = "pop"])
    /\ UNCHANGED <<schedVars, histVars, status, nworkers, sinkVars, obsVars>>

\* async with self._sched_lock (the pop block), reached from the top of the
\* loop or, after the idle sleep, by continue.
LockPop(r) ==
    /\ r.pc \in {"top", "idle"}
    /\ ~locked
    /\ locked' = TRUE
    /\ pool' = Move(r, [r EXCEPT !.pc = "pop"])
    /\ UNCHANGED <<schedVars, histVars, status, nworkers, sinkVars, obsVars>>

\* A faulty AfterPop: the email popped is marked done before it is sent.
AfterPop_marksfirst(popped, work) ==
    IF popped # <<>> THEN Worker("gap", popped[1])
    ELSE IF ~work THEN Worker("exited", NoEmail)
    ELSE Worker("idle", NoEmail)

\* Where the pop block leaves the worker: with an email, out of the loop, or
\* in the idle sleep.
AfterPop(popped, work) ==
    IF popped # <<>> THEN Worker("gen", popped[1])
    ELSE IF ~work THEN Worker("exited", NoEmail)
    ELSE Worker("idle", NoEmail)

\* The body of the pop block: pop_next, has_work, and the lock's release.
PopStep(r) ==
    /\ r.pc = "pop"
    /\ PopOp(1)
    /\ pool' = Move(r, AfterPop(Popped(1), has_work(queue')))
    /\ locked' = FALSE
    /\ UNCHANGED <<status, nworkers, sinkVars, obsVars>>

\* The lead-time sleep (when there is one) and mock_openai_response are over,
\* the payload is built and send is called.
Generate(r) ==
    /\ r.pc = "gen"
    /\ sendCount' = Bump(sendCount, {r.email})
    /\ pool' = Move(r, [r EXCEPT !.pc = "send"])
    /\ UNCHANGED <<schedVars, histVars, status, nworkers, locked, obsVars>>
    /\ UNCHANGED <<max_retries, success_count, failure_count, retry_count>>

\* A faulty AfterSend: after a failed delivery the worker goes back to the
\* top of the loop without marking the email done.
AfterSend_skip(r, o) ==
    IF o.end = "success" THEN [r EXCEPT !.pc = "gap"] ELSE [r EXCEPT !.pc = "top"]

\* Where the return of send leaves the worker, o being what the call did:
\* in the inter-dependency gap sleep, whatever the outcome.
AfterSend(r, o) == [r EXCEPT !.pc = "gap"]

\* send returns to the worker, having done o, and the worker starts the
\* inter-dependency gap sleep.
SendReturns(r, o) ==
    /\ r.pc = "send"
    /\ SendOp(o)
    /\ pool' = Move(r, AfterSend(r, o))
    /\ UNCHANGED <<schedVars, histVars, status, nworkers, locked, sendCount, obsVars>>

\* await asyncio.sleep(settings.inter_dependency_gap) is over and
\* async with self._sched_lock (the mark_done block) is entered.
LockMark(r) ==
    /\ r.pc = "gap"
    /\ ~locked
    /\ locked' = TRUE
    /\ pool' = Move(r, [r EXCEPT !.pc = "mark"])
    /\ UNCHANGED <<schedVars, histVars, status, nworkers, sinkVars, obsVars>>

\* The body of the mark_done block, and the lock's release.  The worker is
\* back at the top of the loop, where email is assigned before it is read
\* again: the state keeps no value for it there.
MarkStep(r) ==
    /\ r.pc = "mark"
    /\ MarkOp(r.email)
    /\ locked' = FALSE
    /\ pool' = Move(r, Worker("top", NoEmail))
    /\ UNCHANGED <<status, nworkers, sinkVars, obsVars>>

\* The TaskGroup of run() is left once every task has finished.
RunReturns ==
    /\ status = "running"
    /\ sched = "built"
    /\ At("exited") = BagToSet(pool)
    /\ status' = "completed"
    /\ UNCHANGED <<schedVars, histVars, nworkers, pool, locked, sinkVars, obsVars>>

Next ==
    \/ MainNoEmails
    \/ MainBuild
    \/ MainBuildFails
    \/ \E r \in BagToSet(pool) : LockPop(r)
    \/ \E r \in BagToSet(pool) : PopStep(r)
    \/ \E r \in BagToSet(pool) : Generate(r)
    \/ \E r \in At("send") : \E o \in Outcomes(max_retries) : SendReturns(r, o)
    \/ \E r \in BagToSet(pool) : LockMark(r)
    \/ \E r \in BagToSet(pool) : MarkStep(r)
    \/ RunReturns

Spec == Init /\ [][Next]_vars

\* The event loop runs a task that can run: the run does not stop while a
\* step is possible.
FairSpec == Init /\ [][Next]_vars /\ WF_vars(Next)

\* ------------------------------------------------- one email is parsed
\* The offsets and the fetch times from_external is given.
Offsets == ((0 - MaxTicks)..MaxTicks) \cup {ExampleTicks}

FetchStarts == (0..MaxFetchSec) \X {0, 1, NsPerSec - 1}

ParseInit ==
    /\ emails = <<>>
    /\ NoScheduler
    /\ NoRun
    /\ nworkers = 0
    /\ max_retries = DefaultMaxRetries
    /\ success_count = 0 /\ failure_count = 0 /\ retry_count = 0
    /\ sendCount = [i \in Ids |-> 0]
    /\ behaviour = <<>> /\ outcome = NoOutcome
    /\ ret = <<>> /\ last = <<"none", 0>>
    /\ \E ticks \in Offsets, fetch \in FetchStarts :
          parsed = [fetch_start_ns |-> fetch, deadline |-> ticks, deadline_ns |-> <<>>]
    /\ lead = NoLead

\* EmailInternal.from_external(email_in, fetch_start_ns)
FromExternal ==
    /\ parsed.deadline_ns = <<>>
    /\ parsed' = [parsed EXCEPT
                     !.deadline_ns = from_external(parsed.deadline, parsed.fetch_start_ns)]
    /\ UNCHANGED <<schedVars, histVars, workVars, sinkVars, ret, last, behaviour, outcome, lead>>

ParseNext == FromExternal

ParseSpec == ParseInit /\ [][ParseNext]_vars

\* ------------------------------------- one popped email and the clock
\* The body of _process_loop below the pop, for one email and with the time
\* each step is taken at.  lead.pc is the await the worker is at:
\*   "popped"  email returned by pop_next, time.time_ns() not yet read
\*   "sleep"   in asyncio.sleep(ahead_sec)
\*   "gen"     in mock_openai_response: generation has started at lead.start
\*   "send"    in ResponseSink.send
\*   "gap"     in asyncio.sleep(settings.inter_dependency_gap)
\*   "done"    mark_done called
\* lead.asked is the duration given to asyncio.sleep (0: no sleep).
\* asyncio.sleep returns no earlier than asked, and up to MaxLag later.
LeadInit ==
    /\ emails = <<>>
    /\ NoScheduler
    /\ NoRun
    /\ nworkers = 1
    /\ max_retries = DefaultMaxRetries
    /\ success_count = 0 /\ failure_count = 0 /\ retry_count = 0
    /\ sendCount = [i \in Ids |-> 0]
    /\ behaviour = <<>> /\ outcome = NoOutcome
    /\ ret = <<>> /\ last = <<"none", 0>>
    /\ parsed = NoParse
    /\ \E d \in 0..MaxTime, t \in 0..MaxTime :
          lead = [NoLead EXCEPT !.pc = "popped", !.deadline_ns = d, !.clock = t]

LeadRest == <<schedVars, histVars, workVars, sinkVars, ret, last, behaviour, outcome, parsed>>

\* now_ns = time.time_ns(); ahead_sec = ...; if ahead_sec > 0: sleep,
\* otherwise straight into mock_openai_response.
LeadTime ==
    /\ lead.pc = "popped"
    /\ LET ahead == ahead_sec(lead.deadline_ns, lead.clock)
       IN  lead' = IF ahead > 0
                   THEN [lead EXCEPT !.pc = "sleep", !.now_ns = lead.clock,
                                     !.asked = ahead]
                   ELSE [lead EXCEPT !.pc = "gen", !.now_ns = lead.clock,
                                     !.start = lead.clock]
    /\ UNCHANGED LeadRest

\* asyncio.sleep(ahead_sec) returns and mock_openai_response is called.
LeadWake ==
    /\ lead.pc = "sleep"
    /\ \E lag \in 0..MaxLag :
          lead' = [lead EXCEPT !.pc = "gen",
                               !.clock = lead.clock + lead.asked + lag,
                               !.start = lead.clock + lead.asked + lag]
    /\ UNCHANGED LeadRest

\* mock_openai_response returns; the payload is built and send is called.
LeadGenerated ==
    /\ lead.pc = "gen"
    /\ \E lag \in 0..MaxLag :
          lead' = [lead EXCEPT !.pc = "send", !.clock = lead.clock + lag]
    /\ UNCHANGED LeadRest

\* send returns; the worker sleeps the inter-dependency gap.
LeadSent ==
    /\ lead.pc = "send"
    /\ \E lag \in 0..MaxLag :
          lead' = [lead EXCEPT !.pc = "gap", !.clock = lead.clock + lag]
    /\ UNCHANGED LeadRest

\* The gap is over; mark_done is called under the lock.
LeadMarked ==
    /\ lead.pc = "gap"
    /\ lead' = [lead EXCEPT !.pc = "done"]
    /\ UNCHANGED LeadRest

LeadNext ==
    \/ LeadTime
    \/ LeadWake
    \/ LeadGenerated
    \/ LeadSent
    \/ LeadMarked

\* Every await of the worker returns: a step that can be taken is taken.
LeadSpec == LeadInit /\ [][LeadNext]_vars /\ WF_vars(LeadNext)

\* --------------------------------------------------- the run of one worker
\* Up to MaxItems emails, whose deadlines have up to MaxItems ranks;
\* settings.concurrency_limit = 1, as the end-to-end test sets it, and
\* settings.max_retries = 1: a send call makes one attempt, which succeeds,
\* is rejected or exhausts the attempts.
SerialInit ==
    /\ \E n \in 0..MaxItems : \E dl \in DeadlineLists(n, 1..MaxItems, TRUE) :
          \E dp \in [1..n -> SUBSET Ids] : emails = Batch(dl, dp)
    /\ NoScheduler
    /\ NoRun
    /\ NoSend
    /\ nworkers = 1
    /\ max_retries = 1

SerialSpec == SerialInit /\ [][Next]_vars

\* ------------------------------------- the run with unexpected exceptions
\* _process_loop has no exception handler: an exception raised in a worker
\* ends its task.  The TaskGroup of run() then cancels the other tasks, each
\* at the await it is suspended in (the lock blocks hold no await), and
\* run() raises once every task has finished.  Worker positions added:
\*   "raised"     the task ended with an exception
\*   "cancelled"  the task was cancelled by the TaskGroup
ErrOutcomes(maxr) == {send(answers, maxr) : answers \in AnyBehaviours(maxr)}

\* mock_openai_response or the construction of the payload raises.
GenerateRaises(r) ==
    /\ r.pc = "gen"
    /\ pool' = Move(r, Worker("raised", r.email))
    /\ UNCHANGED <<schedVars, histVars, status, nworkers, locked, sinkVars, obsVars>>

\* send raises, having done o (an exception send does not catch).
SendRaises(r, o) ==
    /\ r.pc = "send"
    /\ o.end = "raise"
    /\ SendOp(o)
    /\ pool' = Move(r, Worker("raised", r.email))
    /\ UNCHANGED <<schedVars, histVars, status, nworkers, locked, sendCount, obsVars>>

\* A task is cancelled at an await outside send, a sibling having raised.
Cancelled(r) ==
    /\ At("raised") # {}
    /\ r.pc \in {"top", "idle", "gen", "gap"}
    /\ pool' = Move(r, Worker("cancelled", r.email))
    /\ UNCHANGED <<schedVars, histVars, status, nworkers, locked, sinkVars, obsVars>>

\* A task is cancelled inside send, in post_response or in a back-off sleep,
\* after k retries were counted.
CancelledInSend(r, k) ==
    /\ At("raised") # {}
    /\ r.pc = "send"
    /\ retry_count' = retry_count + k
    /\ pool' = Move(r, Worker("cancelled", r.email))
    /\ UNCHANGED <<schedVars, histVars, status, nworkers, locked, obsVars>>
    /\ UNCHANGED <<max_retries, success_count, failure_count, sendCount>>

\* run() raises the exception group and _process_emails fails the run.
RunRaises ==
    /\ status = "running"
    /\ sched = "built"
    /\ At("raised") # {}
    /\ BagToSet(pool) = At("raised") \cup At("cancelled") \cup At("exited")
    /\ status' = "failed"
    /\ UNCHANGED <<schedVars, histVars, nworkers, pool, locked, sinkVars, obsVars>>

ErrNext ==
    \/ Next
    \/ \E r \in BagToSet(pool) : GenerateRaises(r)
    \/ \E r \in At("send") : \E o \in ErrOutcomes(max_retries) : SendRaises(r, o)
    \/ \E r \in BagToSet(pool) : Cancelled(r)
    \/ \E r \in At("send") : \E k \in 0..(max_retries - 1) : CancelledInSend(r, k)
    \/ RunRaises

ErrSpec == Init /\ [][ErrNext]_vars

\* ================================================================ claims
\* The ids a batch's email i depends on, directly or through other emails.
RECURSIVE DepReach(_, _, _)
DepReach(es, frontier, seen) ==
    LET more == UNION {es[i].dependencies : i \in frontier \cap DOMAIN es} \ seen
    IN  IF more = {} THEN seen ELSE DepReach(es, more, seen \cup more)

DependsOn(es, i) == DepReach(es, {i}, {})

\* Some email of the batch depends on itself.
Cyclic(es) == \E i \in DOMAIN es : i \in DependsOn(es, i)

\* Every dependency names an email of the batch.
Closed(es) == \A i \in DOMAIN es : es[i].dependencies \subseteq DOMAIN es

AllPopped == \A i \in DOMAIN emails : popCount[i] >= 1
AllSent == \A i \in DOMAIN emails : sendCount[i] >= 1
AllMarked == \A i \in DOMAIN emails : doneCount[i] >= 1
AllExited == pool # EmptyBag /\ At("exited") = BagToSet(pool)

\* C1: an email is never popped while one of its declared dependencies has
\* not been passed to mark_done.
C1_DepsMarkedBeforePop ==
    \A i \in DOMAIN emails :
        popCount[i] > 0 => \A d \in emails[i].dependencies : doneCount[d] > 0

\* C1 witness: two workers ran and an email with a dependency was popped.
C1_Witness ==
    /\ nworkers >= 2
    /\ \E i \in DOMAIN emails : popCount[i] > 0 /\ emails[i].dependencies # {}

\* C2: no id is popped twice and no email is passed to send twice.
C2_SentAtMostOnce ==
    \A i \in Ids : popCount[i] <= 1 /\ sendCount[i] <= 1

\* C2 witness: two workers have sent every email of a two-email batch.
C2_Witness ==
    /\ nworkers >= 2
    /\ Len(emails) >= 2
    /\ \A i \in DOMAIN emails : sendCount[i] = 1
    /\ At("send") # {}

\* The order the scheduler is to serve ready emails in: the smaller absolute
\* deadline first, and of two emails of one deadline the smaller id first.
ServedBefore(a, b) ==
    \/ emails[a].deadline_ns < emails[b].deadline_ns
    \/ emails[a].deadline_ns = emails[b].deadline_ns /\ a < b

QueueIds(q) == {q[i][2] : i \in 1..Len(q)}

MinOf(a, b) == IF a < b THEN a ELSE b

\* C3: a pop returns min(count, queue size) emails of the ready queue, in
\* ascending (deadline, id) order, none of which is served after an email
\* left in the queue, and removes exactly those; pop_next returns none
\* exactly when the queue is empty.
C3_PopsEarliestFirst ==
    [][last'[1] \in {"pop_next", "get_ready_batch"} =>
        /\ Len(ret') = MinOf(last'[2], Len(queue))
        /\ \A i, j \in 1..Len(ret') : i < j => ServedBefore(ret'[i], ret'[j])
        /\ \A i \in 1..Len(ret') : \A b \in QueueIds(queue') : ServedBefore(ret'[i], b)
        /\ QueueIds(queue) = SeqRange(ret') \cup QueueIds(queue')
        /\ Len(queue) = Len(ret') + Len(queue')
        /\ (last'[1] = "pop_next" => (ret' = <<>> <=> queue = <<>>))
    ]_vars

\* C3 witness: get_ready_batch(2) returned two emails of one deadline.
C3_Witness ==
    /\ last = <<"get_ready_batch", 2>>
    /\ Len(ret) = 2
    /\ emails[ret[1]].deadline_ns = emails[ret[2]].deadline_ns
    /\ queue # <<>>

\* C4: construction succeeds for every acyclic batch; for a batch with a
\* cycle it raises, no ready queue or map exists and no email is ever popped.
C4_CycleAbortsConstruction ==
    /\ (sched = "new" /\ ~Cyclic(emails)) => ENABLED Construct
    /\ sched = "built" => ~Cyclic(emails)
    /\ sched = "failed" =>
          /\ Cyclic(emails)
          /\ queue = <<>> /\ deps_map = <<>> /\ dependents_map = <<>>
          /\ \A i \in Ids : popCount[i] = 0
          /\ ~ENABLED PopNext
          /\ \A c \in 0..MaxCount : ~ENABLED GetReadyBatch(c)

\* C4 witness: construction was refused for two emails that depend on each
\* other.
C4_Witness ==
    /\ sched = "failed"
    /\ Len(emails) = 2
    /\ emails[1].dependencies = {2}
    /\ emails[2].dependencies = {1}

\* C5: under fair scheduling, for an acyclic batch whose dependencies all
\* name emails of the batch, whatever the outcome of each delivery (success,
\* client error, server errors to exhaustion), eventually every email has
\* been sent and passed to mark_done and every worker has left its loop.
C5_AllProcessedEventually ==
    (emails # <<>> /\ ~Cyclic(emails) /\ Closed(emails))
        => <>(AllSent /\ AllMarked /\ AllExited)

\* C5 witness: two workers, an email depending on another, every delivery
\* failed, and yet every email is marked done and every worker has exited.
C5_Witness ==
    /\ nworkers >= 2
    /\ Len(emails) = 2
    /\ Closed(emails)
    /\ \E i \in DOMAIN emails : emails[i].dependencies # {}
    /\ failure_count = 2
    /\ AllSent /\ AllMarked /\ AllExited

\* C6: when run() has returned, every email given to the scheduler has been
\* popped, sent and passed to mark_done.
C6_RunReturnsAfterAllProcessed ==
    status = "completed" => AllPopped /\ AllSent /\ AllMarked

\* C7: a worker has left its loop only if the ready queue is empty and every
\* email has been marked done.
C7_ExitOnlyWhenNothingPending ==
    At("exited") # {} => queue = <<>> /\ AllMarked

\* C8: has_work() is true exactly when the ready queue is non-empty or some
\* email of the batch has not been passed to mark_done.
C8_HasWorkIffPending ==
    sched = "built" => (has_work(queue) <=> (queue # <<>> \/ ~AllMarked))

\* C9: once has_work() is false it never returns to true.
C9_HasWorkStaysFalse ==
    [][(sched = "built" /\ ~has_work(queue)) => ~has_work(queue')]_vars

\* C10: a send call whose every attempt is answered with a server error
\* leaves success_count + 0, retry_count + max_retries, failure_count + 1.
C10_ExhaustionCounters ==
    (outcome.end # "none" /\ \A i \in DOMAIN behaviour : behaviour[i] = "5xx")
        => outcome.success = 0 /\ outcome.retry = max_retries /\ outcome.failure = 1

\* The collaborator answers k server errors and then a success.
Recovers(b, k) ==
    /\ k + 1 \in DOMAIN b
    /\ \A i \in 1..k : b[i] = "5xx"
    /\ b[k + 1] = "2xx"

\* C11: a send call answered by k < max_retries server errors and then a
\* success makes exactly k + 1 attempts (none after the success) and adds 1
\* to success_count, k to retry_count and nothing to failure_count.
C11_RecoveryCounters ==
    [][\A k \in 0..(max_retries - 1) :
          Recovers(behaviour', k) =>
              /\ outcome'.attempts = k + 1
              /\ outcome'.end = "success"
              /\ success_count' = success_count + 1
              /\ retry_count' = retry_count + k
              /\ failure_count' = failure_count
    ]_vars

\* C11 witness: two server errors and then a success, as in the tested case.
C11_Witness ==
    /\ max_retries >= 3
    /\ Recovers(behaviour, 2)
    /\ outcome.attempts = 3
    /\ success_count = 1 /\ retry_count = 2 /\ failure_count = 0

\* The collaborator answers j server errors and then a client error.
Rejects(b, j) ==
    /\ j + 1 \in DOMAIN b
    /\ \A i \in 1..j : b[i] = "5xx"
    /\ b[j + 1] = "4xx"

\* C12: the attempt answered with a client error ends the call: it adds 1 to
\* failure_count, nothing to success_count, nothing to retry_count beyond the
\* j retries that came before it, no back-off sleep follows it and no further
\* attempt is made, whatever attempts remain.
C12_ClientErrorIsTerminal ==
    [][\A j \in 0..(max_retries - 1) :
          Rejects(behaviour', j) =>
              /\ outcome'.attempts = j + 1
              /\ outcome'.sleeps = j
              /\ outcome'.end = "drop"
              /\ failure_count' = failure_count + 1
              /\ retry_count' = retry_count + j
              /\ success_count' = success_count
    ]_vars

\* C12 witness: a client error at the first of three allowed attempts.
C12_Witness ==
    /\ max_retries = 3
    /\ Rejects(behaviour, 0)
    /\ outcome.attempts = 1
    /\ failure_count = 1 /\ retry_count = 0 /\ success_count = 0

\* C13: whatever the collaborator does at each attempt, send returns
\* normally, its outcome absorbed into the counters.
C13_SendNeverRaises ==
    outcome.end # "raise"

\* C14: an exception raised while a worker processes an email does not end
\* the worker, does not fail the run, and the email is still passed to
\* mark_done: no task ends with an exception, none is cancelled, a run whose
\* scheduler was built does not fail, and when the run is over every email
\* that was popped has been marked done.
C14_ErrorsCaughtAtLoopBoundary ==
    /\ At("raised") = {}
    /\ At("cancelled") = {}
    /\ sched = "built" => status # "failed"
    /\ (sched = "built" /\ status # "running") =>
          \A i \in DOMAIN emails : popCount[i] > 0 => doneCount[i] > 0

\* The emails passed to send so far, and those not yet passed to send whose
\* dependencies have all been.
Delivered == {i \in DOMAIN emails : sendCount[i] > 0}

Eligible == {i \in DOMAIN emails \ Delivered : emails[i].dependencies \subseteq Delivered}

\* The batch of the end-to-end test: A (deadline 1.0, no dependency),
\* B (2.0, depends on A), C (1.5, depends on A), with the ids listed by
\* non-increasing deadline: B is 1, C is 2, A is 3.
ExampleBatch ==
    <<[deadline_ns |-> 3, dependencies |-> {3}],
      [deadline_ns |-> 2, dependencies |-> {3}],
      [deadline_ns |-> 1, dependencies |-> {}]>>

\* C15: with one worker, the email passed to send at each step is the
\* minimum-(deadline, id) email among those not yet sent whose dependencies
\* have all been sent; for the example batch the order is A, C, B.
C15_SerialDeliveryOrder ==
    [][\A e \in DOMAIN emails :
          (nworkers = 1 /\ sendCount'[e] > sendCount[e]) =>
              /\ e \in Eligible
              /\ \A b \in Eligible \ {e} : ServedBefore(e, b)
              /\ emails = ExampleBatch =>
                    /\ e = 3 => Delivered = {}
                    /\ e = 2 => Delivered = {3}
                    /\ e = 1 => Delivered = {2, 3}
    ]_vars

\* C15 witness: the run of the example batch is over, every email sent.
C15_Witness ==
    /\ emails = ExampleBatch
    /\ nworkers = 1
    /\ status = "completed"
    /\ Delivered = {1, 2, 3}

\* The number of workers inside a lock block.
InLockBlock == At("pop") \cup At("mark")

HolderCount == BagCardinality([r \in InLockBlock |-> pool[r]])

\* C16: at most one worker is inside a lock block and the lock is held
\* exactly then, so that no worker holds it in the idle wait, the lead-time
\* sleep, generation, send or the gap sleep; and every step that changes the
\* scheduler of a run (pop_next, mark_done) is taken with the lock held by
\* the worker that takes it.
C16_SchedulerCallsUnderLock ==
    /\ [](HolderCount <= 1 /\ (locked <=> HolderCount = 1))
    /\ [][(sched = "built" /\ (schedVars' # schedVars \/ histVars' # histVars)) =>
            /\ locked /\ ~locked'
            /\ \E r \in InLockBlock : r \notin DOMAIN pool' \/ pool'[r] < pool[r]
       ]_vars

\* C16 witness: a worker is in the mark_done block while another is in send.
C16_Witness ==
    /\ nworkers >= 2
    /\ locked
    /\ At("mark") # {}
    /\ At("send") # {}

\* The send call made for email p has returned.
SendOver(p) ==
    /\ sendCount[p] > 0
    /\ \A r \in At("gen") \cup At("send") : r.email # p

\* C17: an email is marked done only by the worker that sent it, after send
\* returned and the gap sleep that follows it; and an email that was popped
\* has no dependency whose send call has not returned.
C17_ReleaseAfterSendAndGap ==
    /\ [](\A p \in DOMAIN emails :
            /\ doneCount[p] > 0 => SendOver(p) /\ \A r \in At("gap") : r.email # p
            /\ popCount[p] > 0 => \A d \in emails[p].dependencies : SendOver(d))
    /\ [][\A p \in DOMAIN emails :
            doneCount'[p] > doneCount[p] =>
                /\ SendOver(p)
                /\ \E r \in At("mark") : r.email = p
       ]_vars

\* C17 witness: with two workers, the send call of a dependent email is in
\* progress, its dependency done.
C17_Witness ==
    /\ nworkers >= 2
    /\ \E r \in At("send") :
          /\ emails[r.email].dependencies # {}
          /\ \A d \in emails[r.email].dependencies : doneCount[d] = 1

\* C18: a run whose batch has a dependency cycle never creates a worker,
\* pops or sends nothing, is never completed, and ends failed.
C18_CycleFailsRun ==
    Cyclic(emails) =>
        /\ [](/\ status # "completed"
              /\ pool = EmptyBag
              /\ \A i \in Ids : popCount[i] = 0 /\ sendCount[i] = 0)
        /\ <>[](status = "failed")

\* C18 witness: the run of two emails that depend on each other has failed.
C18_Witness ==
    /\ status = "failed"
    /\ nworkers >= 1
    /\ Len(emails) = 2
    /\ 2 \in emails[1].dependencies
    /\ 1 \in emails[2].dependencies

\* The emails popped and not yet passed to mark_done.
InFlight == {i \in Ids : popCount[i] > doneCount[i]}

\* C19: the tasks of a run are the nworkers asked for, all on the one
\* scheduler, and at most nworkers emails are popped and not yet marked done.
C19_BoundedConcurrency ==
    /\ Cardinality(InFlight) <= nworkers
    /\ pool # EmptyBag => BagCardinality(pool) = nworkers

\* C19 witness: two workers hold an email each.
C19_Witness ==
    /\ nworkers = 2
    /\ Cardinality(InFlight) = 2
    /\ At("send") # {}

\* deadline_ns - fetch_start_ns of the email parsed, in nanoseconds.
AddedNs ==
    (parsed.deadline_ns[1] - parsed.fetch_start_ns[1]) * NsPerSec
        + (parsed.deadline_ns[2] - parsed.fetch_start_ns[2])

\* C20: deadline_ns is fetch_start_ns plus the offset in nanoseconds with its
\* fraction dropped: twice the nanoseconds added are within two
\* half-nanoseconds of the offset, on the side of zero; and an offset of
\* 1.5 s on a fetch start of 1_000_000_000 ns gives 2_500_000_000 ns.
C20_DeadlineNs ==
    parsed.deadline_ns # <<>> =>
        /\ parsed.deadline_ns[2] \in 0..(NsPerSec - 1)
        /\ (parsed.deadline \in 0..MaxTicks) =>
              /\ 2 * AddedNs <= parsed.deadline * HalfNsPerTick
              /\ parsed.deadline * HalfNsPerTick < 2 * AddedNs + 2
        /\ (parsed.deadline \in (0 - MaxTicks)..(0 - 1)) =>
              /\ 2 * AddedNs >= parsed.deadline * HalfNsPerTick
              /\ parsed.deadline * HalfNsPerTick > 2 * AddedNs - 2
        /\ (parsed.deadline = ExampleTicks /\ parsed.fetch_start_ns = <<1, 0>>) =>
              parsed.deadline_ns = <<2, 500000000>>

\* C20 witness: the case of the unit test has been computed.
C20_Witness ==
    /\ parsed.deadline = ExampleTicks
    /\ parsed.fetch_start_ns = <<1, 0>>
    /\ parsed.deadline_ns = <<2, 500000000>>

PastLead == lead.pc \in {"sleep", "gen", "send", "gap", "done"}

\* The email followed was popped with no lead time left.
LateItem == PastLead /\ lead.deadline_ns - lead.now_ns - LeadMargin <= 0

EntryCount(q, e) == Cardinality({i \in 1..Len(q) : q[i] = e})

\* The dependents of id, as dependents_map holds them.
DependentsOf(id) == IF id \in DOMAIN dependents_map THEN dependents_map[id] ELSE {}

\* C23: pop_next and get_ready_batch leave the unmet sets and the
\* dependents map as they are and only take entries out of the ready
\* queue; mark_done(id) takes id, and nothing else, out of the unmet sets
\* of id's dependents, leaves every other set as it is and only adds
\* entries to the ready queue; no unmet set grows and no call changes the
\* stored emails.
C23_SchedulerFrame ==
    [][sched = "built" =>
          /\ emails' = emails
          /\ dependents_map' = dependents_map
          /\ \A i \in DOMAIN deps_map : deps_map'[i] \subseteq deps_map[i]
          /\ last'[1] \in {"pop_next", "get_ready_batch"} =>
                /\ deps_map' = deps_map
                /\ \A e \in SeqRange(queue) \cup SeqRange(queue') :
                      EntryCount(queue', e) <= EntryCount(queue, e)
          /\ last'[1] = "mark_done" =>
                /\ DOMAIN deps_map' = DOMAIN deps_map
                /\ \A i \in DOMAIN deps_map :
                      deps_map'[i] = IF i \in DependentsOf(last'[2])
                                     THEN deps_map[i] \ {last'[2]}
                                     ELSE deps_map[i]
                /\ \A e \in SeqRange(queue) \cup SeqRange(queue') :
                      EntryCount(queue', e) >= EntryCount(queue, e)
    ]_vars

\* C23 witness: mark_done(id) was called while the ready queue held the
\* entry of an email that does not depend on id, and a dependent of id
\* still waits for another email.
C23_Witness ==
    /\ last[1] = "mark_done"
    /\ \E i \in QueueIds(queue) : i \notin DependentsOf(last[2])
    /\ \E c \in DependentsOf(last[2]) : deps_map[c] # {}

\* The number of entries of the ready queue q for the email id.
IdCount(q, id) == Cardinality({k \in 1..Len(q) : q[k][2] = id})

\* C24: every id in the ready queue has an empty unmet set, has one entry
\* in the queue and has not been popped before; an email with dependencies
\* enters the queue at the mark_done call that empties its unmet set, and
\* at no other step.
C24_ReadyQueue ==
    /\ [](sched = "built" =>
            \A i \in QueueIds(queue) :
                /\ i \in DOMAIN deps_map
                /\ deps_map[i] = {}
                /\ IdCount(queue, i) = 1
                /\ popCount[i] = 0)
    /\ [][\A i \in DOMAIN emails :
             emails[i].dependencies # {} =>
                ((i \in QueueIds(queue') /\ i \notin QueueIds(queue))
                    <=> (/\ sched = "built"
                         /\ last'[1] = "mark_done"
                         /\ deps_map[i] # {}
                         /\ deps_map'[i] = {}))
      ]_vars

\* C24 witness: an email with two dependencies is in the ready queue after
\* the mark_done call of the second of them.
C24_Witness ==
    /\ last[1] = "mark_done"
    /\ \E i \in QueueIds(queue) :
          /\ Cardinality(emails[i].dependencies) = 2
          /\ last[2] \in emails[i].dependencies
          /\ \A d \in emails[i].dependencies : doneCount[d] = 1

\* The sum of f over the set S of its arguments.
RECURSIVE SumOver(_, _)
SumOver(f, S) ==
    IF S = {} THEN 0
    ELSE LET x == CHOOSE y \in S : TRUE IN f[x] + SumOver(f, S \ {x})

\* The number of worker tasks inside a send call.
Sending == SumOver(pool, At("send"))

\* The number of send calls that have returned.
SendsCompleted == SumOver(sendCount, Ids) - Sending

\* C25: every send call that returns adds 1 to exactly one of success_count
\* and failure_count, so their sum is the number of send calls that have
\* returned, and once the run has finished it is the number of emails
\* popped; this holds with several workers on the one sink.
C25_CountersConsistent ==
    /\ [](success_count + failure_count = SendsCompleted)
    /\ [](status = "completed" =>
            success_count + failure_count = SumOver(popCount, Ids))
    /\ [][(SendsCompleted' # SendsCompleted
             \/ success_count' # success_count
             \/ failure_count' # failure_count) =>
            /\ SendsCompleted' = SendsCompleted + 1
            /\ \/ success_count' = success_count + 1 /\ failure_count' = failure_count
               \/ success_count' = success_count /\ failure_count' = failure_count + 1
      ]_vars

\* C25 witness: of two workers on the one sink, one is inside send while
\* the call of the other has returned as a failure after a retry.
C25_Witness ==
    /\ nworkers = 2
    /\ Sending = 1
    /\ SumOver(sendCount, Ids) = 2
    /\ success_count = 0
    /\ failure_count = 1
    /\ retry_count >= 1

====
